---- MODULE Spec2Model ----
(***************************************************************************)
(* Model of the composition driver of actuate (src/src/composer.rs):       *)
(* the node arena, the path-ordered Pending set, the ready queue of task   *)
(* keys, the queue of deferred updates, and the Composer that steps them   *)
(* (Iterator::next), with try_compose and poll_compose on top.             *)
(***************************************************************************)
EXTENDS Integers, Sequences, FiniteSets, TLC

\* ------------------------------------------------------------------ bounds
MaxNodes == 4   \* nodes of the arena when the order of the tree is examined
FewNodes == 2   \* nodes of the arena when results and failures are examined
OneNode  == 1   \* nodes of the arena when tasks are examined
MaxCalls == 3   \* calls of next / try_compose / poll_compose
FewCalls == 2   \* calls when the order of the tree is examined
MaxQueue == 2   \* task keys in the ready queue when a wake-up adds one
MaxUpd   == 1   \* updates enqueued between calls
MaxTasks == 1   \* tasks spawned
MaxFails == 1   \* executions that report a failure

NoKey   == 0                    \* Option::None for keys, wakers and errors
Root    == 1                    \* the key Composer::new gets for the root
Wakers  == {1, 2}               \* wake handles a caller may pass
Errors  == {1, 2}               \* failures a composable may report
Kinds   == {"Counter", "Plain"} \* tests::Counter, tests::NonUpdateCounter

VARIABLES
    nodes,        \* rt.nodes: key -> Node
    pending,      \* rt.pending: BTreeSet<Pending>
    tasks,        \* rt.tasks: key -> task
    task_queue,   \* rt.task_queue
    update_queue, \* rt.update_queue
    waker,        \* rt.waker
    current_key,  \* rt.current_key
    is_initial,   \* Composer::is_initial
    error_cell,   \* the error sink of the step in progress
    call,         \* the API call in progress: none, next, try, poll
    pc,           \* position inside Iterator::next: idle, tasks, updates
    is_pending,   \* try_compose's local
    result,       \* what the last call returned
    x,            \* per node, how often its composable ran (the tests' x)
    signals,      \* wake handles that were signalled
    hist,         \* bookkeeping of the run, read by the properties only
    env           \* what the composables of this run may do at most

vars == <<nodes, pending, tasks, task_queue, update_queue, waker, current_key,
          is_initial, error_cell, call, pc, is_pending, result, x, signals,
          hist, env>>

\* ------------------------------------------------------------ Pending

\* Ord with the comparison of two indices turned round
RECURSIVE cmpFromSwap(_, _, _)
cmpFromSwap(a, b, i) ==
    IF i > Len(a) \/ i > Len(b)
    THEN IF Len(a) < Len(b) THEN "Less"
         ELSE IF Len(a) > Len(b) THEN "Greater" ELSE "Equal"
    ELSE IF a[i] > b[i] THEN "Less"
         ELSE IF a[i] < b[i] THEN "Greater"
         ELSE cmpFromSwap(a, b, i + 1)

\* Ord with the comparison of the lengths turned round
RECURSIVE cmpFromLong(_, _, _)
cmpFromLong(a, b, i) ==
    IF i > Len(a) \/ i > Len(b)
    THEN IF Len(a) > Len(b) THEN "Less"
         ELSE IF Len(a) < Len(b) THEN "Greater" ELSE "Equal"
    ELSE IF a[i] < b[i] THEN "Less"
         ELSE IF a[i] > b[i] THEN "Greater"
         ELSE cmpFromLong(a, b, i + 1)

\* Ord without the comparison of the lengths
RECURSIVE cmpFromZip(_, _, _)
cmpFromZip(a, b, i) ==
    IF i > Len(a) \/ i > Len(b)
    THEN "Equal"
    ELSE IF a[i] < b[i] THEN "Less"
         ELSE IF a[i] > b[i] THEN "Greater"
         ELSE cmpFromZip(a, b, i + 1)

\* impl Ord for Pending: the zip loop, then the lengths
RECURSIVE cmpFrom(_, _, _)
cmpFrom(a, b, i) ==
    IF i > Len(a) \/ i > Len(b)
    THEN IF Len(a) < Len(b) THEN "Less"
         ELSE IF Len(a) > Len(b) THEN "Greater" ELSE "Equal"
    ELSE IF a[i] < b[i] THEN "Less"
         ELSE IF a[i] > b[i] THEN "Greater"
         ELSE cmpFrom(a, b, i + 1)

cmp(a, b) == cmpFrom(a.indices, b.indices, 1)

\* the indices left innermost first
ReverseNot(s) == s

\* `indices.reverse()`
Reverse(s) == [i \in 1..Len(s) |-> s[Len(s) + 1 - i]]

\* the child indices from the node up to the root, innermost first
RECURSIVE walk(_, _)
walk(ns, key) ==
    <<ns[key].child_idx>> \o
        (IF ns[key].parent = NoKey THEN <<>> ELSE walk(ns, ns[key].parent))

\* Runtime::pending
Pending(ns, key) == [key |-> key, indices |-> Reverse(walk(ns, key))]

\* BTreeSet::insert: an entry that compares Equal to a stored one is dropped
insert(set, p) ==
    IF \E q \in set : cmp(q, p) = "Equal" THEN set ELSE set \cup {p}

\* the greatest entry instead of the least
firstLast(set) == CHOOSE p \in set : \A q \in set : cmp(p, q) # "Less"

\* BTreeSet::pop_first: the least entry under Ord
first(set) == CHOOSE p \in set : \A q \in set : cmp(p, q) # "Greater"

\* Runtime::queue
queue(ns, set, key) == insert(set, Pending(ns, key))

RECURSIVE queueAll(_, _, _)
queueAll(ns, set, keys) ==
    IF keys = <<>> THEN set
    ELSE queueAll(ns, queue(ns, set, Head(keys)), Tail(keys))

\* ------------------------------------------------------------ updates

\* a deferred mutation: SignalMut::set on node k marks k, or does nothing
Mark(k)   == [op |-> "mark", key |-> k]
Noop      == [op |-> "noop", key |-> NoKey]

\* the wake-up at the end of Runtime::update and of TaskWaker::wake
wake(sig, w) == IF w = NoKey THEN sig ELSE sig \cup {w}

\* ------------------------------------------------------------ results

\* error_cell_handle.set(Some(error)), once per reported failure
RECURSIVE report(_, _)
report(cell, errs) ==
    IF errs = <<>> THEN cell ELSE report(Head(errs), Tail(errs))

Out(out, err) == [out |-> out, err |-> err]
NoOut == Out("none", NoKey)

\* the end of try_compose without the test of is_pending
tailOk(isPending) == Out("Ok", NoKey)

\* the end of try_compose, after the loop
tail(isPending) == IF isPending THEN Out("Pending", NoKey) ELSE Out("Ok", NoKey)

\* the match of poll_compose with Pending handed on as an error
pollErr(r) ==
    CASE r.out = "Ok"      -> Out("Ready(Ok)", NoKey)
      [] r.out = "Pending" -> Out("Ready(Err)", NoKey)
      [] r.out = "Error"   -> Out("Ready(Err)", r.err)

\* the match of poll_compose
poll(r) ==
    CASE r.out = "Ok"      -> Out("Ready(Ok)", NoKey)
      [] r.out = "Pending" -> Out("Poll::Pending", NoKey)
      [] r.out = "Error"   -> Out("Ready(Err)", r.err)

\* the value a finished call hands to its caller: try is what try_compose
\* returned, res what the called function returned
returned(api, r) ==
    [api |-> api, try |-> r, res |-> IF api = "poll" THEN poll(r) ELSE r]

NoResult == [api |-> "none", try |-> NoOut, res |-> NoOut]

\* the loop of try_compose without the `?`: an Err item is taken like Ok
AfterStepGoOn(some, err) ==
    IF call = "next"
    THEN /\ call' = "none"
         /\ is_pending' = is_pending
         /\ result' = [api |-> "next", try |-> NoOut,
                       res |-> IF ~some THEN Out("None", NoKey)
                               ELSE IF err = NoKey THEN Out("Some(Ok)", NoKey)
                               ELSE Out("Some(Err)", err)]
    ELSE IF some
    THEN /\ call' = call
         /\ is_pending' = FALSE
         /\ result' = result
    ELSE /\ call' = "none"
         /\ is_pending' = is_pending
         /\ result' = returned(call, tail(is_pending))

\* what the caller of Iterator::next does with the item: a bare next hands
\* it out, the loop of try_compose returns on Err, clears is_pending on
\* Ok and leaves on None
AfterStep(some, err) ==
    IF call = "next"
    THEN /\ call' = "none"
         /\ is_pending' = is_pending
         /\ result' = [api |-> "next", try |-> NoOut,
                       res |-> IF ~some THEN Out("None", NoKey)
                               ELSE IF err = NoKey THEN Out("Some(Ok)", NoKey)
                               ELSE Out("Some(Err)", err)]
    ELSE IF some /\ err # NoKey
    THEN /\ call' = "none"
         /\ is_pending' = is_pending
         /\ result' = returned(call, Out("Error", err))
    ELSE IF some
    THEN /\ call' = call
         /\ is_pending' = FALSE
         /\ result' = result
    ELSE /\ call' = "none"
         /\ is_pending' = is_pending
         /\ result' = returned(call, tail(is_pending))

\* ------------------------------------------------------------ composables

NumNodes == Cardinality(DOMAIN nodes)
NumTasks == Cardinality(DOMAIN tasks)

\* the children a composable may create: on its first run only, in
\* creation order
KidCounts(n) ==
    IF x[n] = 0 THEN 0..(env.nodes - NumNodes) ELSE {0}

\* the failures one execution may report
ErrSeqs ==
    IF hist.nfail < env.fails
    THEN {<<>>} \cup {<<e>> : e \in Errors}
                \cup {<<e, f>> : e, f \in Errors}
    ELSE {<<>>}

Spawns(n) == IF x[n] = 0 /\ NumTasks < env.tasks THEN BOOLEAN ELSE {FALSE}

\* a task as spawned; phase is the future's own state, which every poll of
\* an unfinished future moves on (kept modulo 2)
NewTask == [state |-> "pending", polled |-> FALSE, waker |-> NoKey,
            phase |-> 0]

\* AnyCompose::any_compose of node n with `base` the Pending set it runs
\* against: the composable creates k children under current_key with the
\* next child indices and queues each, a Counter enqueues the update that
\* marks it, x counts the run, and the failures go to the error sink
Compose(n, base, k, kd, sp) ==
    LET N    == NumNodes
        new  == (N + 1)..(N + k)
        cur  == current_key'
        ns   == [key \in DOMAIN nodes \cup new |->
                   IF key \in new
                   THEN [parent    |-> cur,
                         child_idx |-> Len(nodes[cur].children) + key - N - 1,
                         children  |-> <<>>,
                         kind      |-> kd[key - N]]
                   ELSE IF key = cur
                   THEN [nodes[cur] EXCEPT
                           !.children = @ \o [i \in 1..k |-> N + i]]
                   ELSE nodes[key]]
        T    == NumTasks + 1
    IN  /\ nodes' = ns
        /\ pending' = queueAll(ns, base, [i \in 1..k |-> N + i])
        /\ x' = [key \in DOMAIN ns |->
                   IF key = n THEN x[n] + 1
                   ELSE IF key \in new THEN 0 ELSE x[key]]
        /\ update_queue' = IF nodes[n].kind = "Counter"
                           THEN Append(update_queue, Mark(n))
                           ELSE update_queue
        /\ signals' = IF nodes[n].kind = "Counter"
                      THEN wake(signals, waker) ELSE signals
        /\ tasks' = IF sp THEN [t \in DOMAIN tasks \cup {T} |->
                                  IF t = T THEN NewTask ELSE tasks[t]]
                    ELSE tasks
        /\ task_queue' = IF sp THEN Append(task_queue, T) ELSE task_queue

\* bookkeeping of a step that ran node n
Ran(n, errs) ==
    hist' = [hist EXCEPT
               !.firstPass = @ /\ pending' # {},
               !.order     = IF hist.firstPass THEN Append(@, n) ELSE @,
               !.nfail     = IF errs = <<>> THEN @ ELSE @ + 1,
               !.worked    = TRUE,
               !.bare      = @ \/ call = "next",
               !.firstErr  = IF @ = NoKey /\ errs # <<>>
                             THEN Head(errs) ELSE @,
               !.owed      = IF errs # <<>>
                             THEN {p.key : p \in pending'}
                             ELSE @ \ {n},
               !.woken     = @ \/ (nodes[n].kind = "Counter" /\ waker # NoKey)]

\* ------------------------------------------------------------ Composer

\* Composer::new, for composables held to the limits e
InitWith(e) ==
    /\ env = e
    /\ \E kd \in Kinds :
         nodes = <<[parent |-> NoKey, child_idx |-> 0, children |-> <<>>,
                    kind |-> kd]>>
    /\ pending = {}
    /\ tasks = <<>>
    /\ task_queue = <<>>
    /\ update_queue = <<>>
    /\ waker = NoKey
    /\ current_key = Root
    /\ is_initial = TRUE
    /\ error_cell = NoKey
    /\ call = "none"
    /\ pc = "idle"
    /\ is_pending = FALSE
    /\ result = NoResult
    /\ x = <<0>>
    /\ signals = {}
    /\ hist = [firstPass |-> TRUE, order |-> <<>>, ncalls |-> 0, nfail |-> 0,
               nupd |-> 0,
               worked |-> FALSE, drained |-> FALSE, bare |-> FALSE,
               pollArg |-> NoKey, repolled |-> FALSE, dup |-> FALSE,
               steady |-> FALSE, x0 |-> <<>>,
               firstErr |-> NoKey, owed |-> {}, rewoken |-> {},
               woken |-> FALSE,
               removed |-> <<>>]

\* a small tree whose composables may report failures but spawn no task
Init ==
    InitWith([nodes |-> FewNodes, tasks |-> 0, fails |-> MaxFails,
              upd |-> MaxUpd, calls |-> MaxCalls])

\* a larger tree whose composables spawn no task and report no failure
InitOrder ==
    InitWith([nodes |-> MaxNodes, tasks |-> 0, fails |-> 0,
              upd |-> MaxUpd, calls |-> FewCalls])

\* a root whose composable spawns tasks and reports no failure
InitTasks ==
    InitWith([nodes |-> OneNode, tasks |-> MaxTasks, fails |-> 0,
              upd |-> MaxUpd, calls |-> FewCalls])

\* a root that spawns tasks, where the root and the tasks may report
\* failures
InitSink ==
    InitWith([nodes |-> OneNode, tasks |-> MaxTasks, fails |-> MaxFails,
              upd |-> MaxUpd, calls |-> FewCalls])

\* nothing is left to do: the tree was composed, nothing is pending, no
\* task is ready and no update is queued
Steady ==
    ~is_initial /\ pending = {} /\ task_queue = <<>> /\ update_queue = <<>>

\* bookkeeping of a call that starts, with the wake handle it passed
Called(w) ==
    hist' = [hist EXCEPT !.ncalls = @ + 1, !.worked = FALSE,
                         !.drained = FALSE, !.pollArg = w,
                         !.firstErr = NoKey, !.woken = FALSE,
                         !.steady = Steady,
                         !.x0 = IF Steady THEN x ELSE <<>>]

\* a caller starts Iterator::next on its own
CallNext ==
    /\ call = "none" /\ hist.ncalls < env.calls
    /\ call' = "next"
    /\ Called(hist.pollArg)
    /\ UNCHANGED <<env, nodes, pending, tasks, task_queue, update_queue, waker,
                   current_key, is_initial, error_cell, pc, is_pending,
                   x, signals>>
    /\ result' = NoResult

\* Composer::try_compose up to its loop
CallTryCompose ==
    /\ call = "none" /\ hist.ncalls < env.calls
    /\ call' = "try"
    /\ is_pending' = TRUE
    /\ Called(hist.pollArg)
    /\ UNCHANGED <<env, nodes, pending, tasks, task_queue, update_queue, waker,
                   current_key, is_initial, error_cell, pc, x, signals>>
    /\ result' = NoResult

\* Composer::poll_compose up to the loop of try_compose
CallPollCompose ==
    /\ call = "none" /\ hist.ncalls < env.calls
    /\ \E w \in Wakers :
         /\ waker' = w
         /\ Called(w)
    /\ call' = "poll"
    /\ is_pending' = TRUE
    /\ UNCHANGED <<env, nodes, pending, tasks, task_queue, update_queue,
                   current_key, is_initial, error_cell, pc, x, signals>>
    /\ result' = NoResult

\* the initial branch without `self.is_initial = false`
StepInitialStay ==
    /\ call # "none" /\ pc = "idle"
    /\ is_initial
    /\ current_key' = Root
    /\ \E k \in KidCounts(Root), errs \in ErrSeqs, sp \in Spawns(Root) :
         \E kd \in [1..k -> Kinds] :
           /\ Compose(Root, pending, k, kd, sp)
           /\ AfterStep(TRUE, report(NoKey, errs))
           /\ Ran(Root, errs)
    /\ error_cell' = NoKey
    /\ UNCHANGED <<env, waker, pc, is_initial>>

\* Iterator::next, the initial branch
StepInitial ==
    /\ call # "none" /\ pc = "idle"
    /\ is_initial
    /\ is_initial' = FALSE
    /\ current_key' = Root
    /\ \E k \in KidCounts(Root), errs \in ErrSeqs, sp \in Spawns(Root) :
         \E kd \in [1..k -> Kinds] :
           /\ Compose(Root, pending, k, kd, sp)
           /\ AfterStep(TRUE, report(NoKey, errs))
           /\ Ran(Root, errs)
    /\ error_cell' = NoKey
    /\ UNCHANGED <<env, waker, pc>>

\* the branch that pops the first pending entry, without
\* `self.rt.current_key.set(pending.key)`
StepPendingKeep ==
    /\ call # "none" /\ pc = "idle"
    /\ ~is_initial
    /\ pending # {}
    /\ current_key' = current_key
    /\ LET p == first(pending) IN
         \E k \in KidCounts(p.key), errs \in ErrSeqs, sp \in Spawns(p.key) :
           \E kd \in [1..k -> Kinds] :
             /\ Compose(p.key, pending \ {p}, k, kd, sp)
             /\ AfterStep(TRUE, report(NoKey, errs))
             /\ Ran(p.key, errs)
    /\ error_cell' = NoKey
    /\ UNCHANGED <<env, waker, pc, is_initial>>

\* Iterator::next, the branch that pops the first pending entry
StepPending ==
    /\ call # "none" /\ pc = "idle"
    /\ ~is_initial
    /\ pending # {}
    /\ LET p == first(pending) IN
         /\ current_key' = p.key
         /\ \E k \in KidCounts(p.key), errs \in ErrSeqs,
               sp \in Spawns(p.key) :
              \E kd \in [1..k -> Kinds] :
                /\ Compose(p.key, pending \ {p}, k, kd, sp)
                /\ AfterStep(TRUE, report(NoKey, errs))
                /\ Ran(p.key, errs)
    /\ error_cell' = NoKey
    /\ UNCHANGED <<env, waker, pc, is_initial>>

\* Iterator::next, the branch taken with nothing pending: enter the loops
StepDrain ==
    /\ call # "none" /\ pc = "idle"
    /\ ~is_initial
    /\ pending = {}
    /\ pc' = "tasks"
    /\ error_cell' = NoKey
    /\ hist' = [hist EXCEPT !.drained = FALSE, !.bare = @ \/ call = "next",
                            !.rewoken = {}]
    /\ UNCHANGED <<env, nodes, pending, tasks, task_queue, update_queue, waker,
                   current_key, is_initial, call, is_pending, result, x,
                   signals>>

\* a round of the task loop that takes a task that completes out of the
\* Task Table
DrainTaskRemove ==
    /\ pc = "tasks"
    /\ task_queue # <<>>
    /\ LET key == Head(task_queue) IN
       \E done \in BOOLEAN, sw \in BOOLEAN :
         /\ tasks' = IF done
                     THEN [t \in DOMAIN tasks \ {key} |-> tasks[t]]
                     ELSE [tasks EXCEPT
                             ![key] = [state  |-> @.state,
                                       polled |-> TRUE,
                                       waker  |-> waker,
                                       phase  |-> 1 - @.phase]]
         /\ task_queue' = IF sw THEN Append(Tail(task_queue), key)
                          ELSE Tail(task_queue)
         /\ signals' = IF sw THEN wake(signals, waker) ELSE signals
         /\ error_cell' = error_cell
         /\ hist' = [hist EXCEPT !.drained = TRUE, !.worked = TRUE]
    /\ UNCHANGED <<env, nodes, pending, update_queue, waker, current_key,
                   is_initial, call, pc, is_pending, result, x>>

\* one round of `while let Some(key) = self.task_queue.pop()`: the task is
\* polled with a TaskWaker that holds the wake handle of this moment; the
\* task may wake itself while it runs, may report failures to the error
\* sink of the step, and may complete
DrainTask ==
    /\ pc = "tasks"
    /\ task_queue # <<>>
    /\ LET key == Head(task_queue) IN
       \E done \in BOOLEAN, sw \in BOOLEAN, errs \in ErrSeqs :
         /\ tasks[key].state = "done" => ~done /\ ~sw /\ errs = <<>>
         /\ tasks' = [tasks EXCEPT
                        ![key] = [state  |-> IF done THEN "done" ELSE @.state,
                                  polled |-> TRUE,
                                  waker  |-> waker,
                                  phase  |-> IF @.state = "done" THEN @.phase
                                             ELSE 1 - @.phase]]
         /\ task_queue' = IF sw THEN Append(Tail(task_queue), key)
                          ELSE Tail(task_queue)
         /\ signals' = IF sw THEN wake(signals, waker) ELSE signals
         /\ error_cell' = report(error_cell, errs)
         /\ hist' = [hist EXCEPT
                       !.drained = TRUE, !.worked = TRUE,
                       !.nfail = IF errs = <<>> THEN @ ELSE @ + 1,
                       !.firstErr = IF @ = NoKey /\ errs # <<>>
                                    THEN Head(errs) ELSE @,
                       !.repolled = @ \/ tasks[key].state = "done",
                       !.rewoken = IF sw THEN @ \cup {key} ELSE @,
                       !.woken = @ \/ (sw /\ waker # NoKey)]
    /\ UNCHANGED <<env, nodes, pending, update_queue, waker, current_key,
                   is_initial, call, pc, is_pending, result, x>>

\* the task loop ends on an empty queue
DrainTasksEnd ==
    /\ pc = "tasks"
    /\ task_queue = <<>>
    /\ pc' = "updates"
    /\ UNCHANGED <<env, nodes, pending, tasks, task_queue, update_queue, waker,
                   current_key, is_initial, error_cell, call, is_pending,
                   result, x, signals, hist>>

\* a round of the update loop that takes the update enqueued last
DrainUpdateLast ==
    /\ pc = "updates"
    /\ update_queue # <<>>
    /\ LET u == update_queue[Len(update_queue)] IN
         pending' = IF u.op = "mark" THEN queue(nodes, pending, u.key)
                    ELSE pending
    /\ update_queue' = SubSeq(update_queue, 1, Len(update_queue) - 1)
    /\ hist' = [hist EXCEPT !.drained = TRUE, !.worked = TRUE]
    /\ UNCHANGED <<env, nodes, tasks, task_queue, waker, current_key, is_initial,
                   error_cell, call, pc, is_pending, result, x, signals>>

\* a round of the update loop that pops the update and does not call it
DrainUpdateSkip ==
    /\ pc = "updates"
    /\ update_queue # <<>>
    /\ update_queue' = Tail(update_queue)
    /\ hist' = [hist EXCEPT !.drained = TRUE, !.worked = TRUE]
    /\ UNCHANGED <<env, nodes, pending, tasks, task_queue, waker, current_key,
                   is_initial, error_cell, call, pc, is_pending, result, x,
                   signals>>

\* one round of `while let Some(mut update) = self.update_queue.pop()`
DrainUpdate ==
    /\ pc = "updates"
    /\ update_queue # <<>>
    /\ LET u == Head(update_queue) IN
         pending' = IF u.op = "mark" THEN queue(nodes, pending, u.key)
                    ELSE pending
    /\ update_queue' = Tail(update_queue)
    /\ hist' = [hist EXCEPT
                  !.drained = TRUE, !.worked = TRUE,
                  !.dup = @ \/ (Head(update_queue).op = "mark" /\
                                \E q \in pending :
                                    q.key = Head(update_queue).key)]
    /\ UNCHANGED <<env, nodes, tasks, task_queue, waker, current_key, is_initial,
                   error_cell, call, pc, is_pending, result, x, signals>>

\* the update loop ends on an empty queue and next returns None
DrainEnd ==
    /\ pc = "updates"
    /\ update_queue = <<>>
    /\ pc' = "idle"
    /\ AfterStep(FALSE, NoKey)
    /\ UNCHANGED <<env, nodes, pending, tasks, task_queue, update_queue, waker,
                   current_key, is_initial, error_cell, x, signals, hist>>

\* drop_recursive as the sequence of the keys it removes, in the order of
\* the removals
RECURSIVE drop_recursive(_, _)
RECURSIVE dropChildren(_, _)

\* drop_recursive that removes the node before it visits the children
drop_recursiveTop(ns, key) == <<key>> \o dropChildren(ns, ns[key].children)

\* fn drop_recursive: the children in their order, each with its subtree,
\* then `rt.nodes.borrow_mut().remove(key)`
drop_recursive(ns, key) == dropChildren(ns, ns[key].children) \o <<key>>

\* `for child_key in children`
dropChildren(ns, ks) ==
    IF ks = <<>> THEN <<>>
    ELSE drop_recursive(ns, Head(ks)) \o dropChildren(ns, Tail(ks))

\* Drop for Composer, between two calls: the arena without the removed keys
Drop ==
    /\ call = "none" /\ pc = "idle"
    /\ LET order == drop_recursive(nodes, Root) IN
         /\ nodes' = [k \in DOMAIN nodes \ {order[i] : i \in DOMAIN order} |->
                        nodes[k]]
         /\ hist' = [hist EXCEPT !.removed = order]
    /\ call' = "dropped"
    /\ pc' = "dropped"
    /\ UNCHANGED <<env, pending, tasks, task_queue, update_queue, waker,
                   current_key, is_initial, error_cell, is_pending, result, x,
                   signals>>

\* ------------------------------------------------------------ environment

\* TaskWaker::wake, from any thread, through the waker of the last poll
Wake ==
    /\ Len(task_queue) < MaxQueue
    /\ \E key \in DOMAIN tasks :
         /\ tasks[key].polled
         /\ task_queue' = Append(task_queue, key)
         /\ signals' = wake(signals, tasks[key].waker)
         /\ hist' = [hist EXCEPT
                       !.woken = @ \/ (waker # NoKey /\ tasks[key].waker = waker)]
    /\ UNCHANGED <<env, nodes, pending, tasks, update_queue, waker, current_key,
                   is_initial, error_cell, call, pc, is_pending, result, x>>

\* Runtime::update called between two calls of the driver
Update ==
    /\ call = "none"
    /\ hist.nupd < env.upd
    /\ \E u \in {Noop} \cup {Mark(k) : k \in DOMAIN nodes} :
         update_queue' = Append(update_queue, u)
    /\ signals' = wake(signals, waker)
    /\ hist' = [hist EXCEPT !.nupd = @ + 1, !.woken = @ \/ waker # NoKey]
    /\ UNCHANGED <<env, nodes, pending, tasks, task_queue, waker, current_key,
                   is_initial, error_cell, call, pc, is_pending, result, x>>

\* the driver under try_compose and poll_compose, no task being spawned
Next ==
    \/ CallTryCompose
    \/ CallPollCompose
    \/ StepInitial
    \/ StepPending
    \/ StepDrain
    \/ DrainTasksEnd
    \/ DrainUpdate
    \/ DrainEnd
    \/ Update

Spec == Init /\ [][Next]_vars

\* the driver under try_compose
NextOrder ==
    \/ CallTryCompose
    \/ StepInitial
    \/ StepPending
    \/ StepDrain
    \/ DrainTasksEnd
    \/ DrainUpdate
    \/ DrainEnd
    \/ Update

SpecOrder == InitOrder /\ [][NextOrder]_vars

\* the driver under try_compose, until the Composer is dropped
NextDrop ==
    \/ NextOrder
    \/ Drop

SpecDrop == InitOrder /\ [][NextDrop]_vars

\* the driver under all its callers, with tasks and the wake-ups of their
\* wakers
NextTasks ==
    \/ CallNext
    \/ CallTryCompose
    \/ CallPollCompose
    \/ StepInitial
    \/ StepPending
    \/ StepDrain
    \/ DrainTask
    \/ DrainTasksEnd
    \/ DrainUpdate
    \/ DrainEnd
    \/ Wake
    \/ Update

SpecTasks == InitTasks /\ [][NextTasks]_vars

\* a root that spawns tasks, composed by try_compose alone, with no update
\* from outside
InitKeys ==
    InitWith([nodes |-> OneNode, tasks |-> MaxTasks, fails |-> 0,
              upd |-> 0, calls |-> FewCalls])

\* the steps of the driver, which runs them one after the other
Driver ==
    \/ StepInitial
    \/ StepPending
    \/ StepDrain
    \/ DrainTask
    \/ DrainTasksEnd
    \/ DrainUpdate
    \/ DrainEnd

\* the driver under try_compose, with tasks and the wake-ups of their wakers
NextKeys ==
    \/ CallTryCompose
    \/ Driver
    \/ Wake

SpecKeys == InitKeys /\ [][NextKeys]_vars

\* the driver under try_compose when no waker is woken from outside
NextLive ==
    \/ CallTryCompose
    \/ Driver

\* a driver that goes on as long as it has a step to take: it is sequential
\* code running on the caller's thread
SpecLive == InitKeys /\ [][NextLive]_vars /\ WF_vars(Driver)

\* the same driver when the composables and the tasks may report failures
SpecSink == InitSink /\ [][NextTasks]_vars

\* ------------------------------------------------------------ properties

IsPend(set, k) == \E q \in set : q.key = k

\* p comes before q in document order: p is a proper prefix of q, or at the
\* first place where they differ p holds the smaller index
PathLt(p, q) ==
    \E k \in 0..Len(p) :
        /\ k <= Len(q)
        /\ \A i \in 1..k : p[i] = q[i]
        /\ \/ k = Len(p) /\ k < Len(q)
           \/ k < Len(p) /\ k < Len(q) /\ p[k + 1] < q[k + 1]

RECURSIVE Preorder(_, _)
RECURSIVE PreorderAll(_, _)
Preorder(ns, n) == <<n>> \o PreorderAll(ns, ns[n].children)
PreorderAll(ns, ks) ==
    IF ks = <<>> THEN <<>>
    ELSE Preorder(ns, Head(ks)) \o PreorderAll(ns, Tail(ks))

IsPrefix(s, t) == Len(s) <= Len(t) /\ \A i \in 1..Len(s) : s[i] = t[i]

\* the step in progress runs node n and no other node
RunsOnly(n) ==
    \A m \in DOMAIN nodes' :
        x'[m] = IF m = n THEN x[n] + 1
                ELSE IF m \in DOMAIN nodes THEN x[m] ELSE 0

\* s is a later sibling of p
LaterSibling(s, p) ==
    /\ nodes[p].parent # NoKey
    /\ nodes[s].parent = nodes[p].parent
    /\ nodes[s].child_idx > nodes[p].child_idx

\* C1: during the first full pass (from the initial step until the Pending
\* set is first empty) the nodes run so far are, in order, the beginning of
\* the preorder traversal of the tree built so far, and when the pass ends
\* they are the whole preorder traversal of the tree.
C1_Preorder ==
    IF hist.firstPass
    THEN IsPrefix(hist.order, Preorder(nodes, Root))
    ELSE hist.order = Preorder(nodes, Root)

\* the first pass over root(A(C), B) has ended: C ran before B
C1_Witness == ~hist.firstPass /\ hist.order = <<1, 2, 4, 3>>

\* C2: a step that pops the Pending set runs the entry whose path comes
\* first in document order (index by index, a proper prefix before its
\* extensions): every other pending entry has a later path.
C2_PopsSmallest ==
    [][(call # "none" /\ pc = "idle" /\ ~is_initial /\ pending # {}
            /\ x' # x)
         => \E p \in pending :
              /\ p \notin pending'
              /\ x'[p.key] = x[p.key] + 1
              /\ \A q \in pending \ {p} : PathLt(p.indices, q.indices)]_vars

\* [0], [0,1] and [0,2] were pending together; [0] ran, then [0,1], and
\* [0,2] is still pending
C2_Witness ==
    \E b, d \in DOMAIN nodes :
        /\ Pending(nodes, b).indices = <<0, 1>>
        /\ Pending(nodes, d).indices = <<0, 2>>
        /\ pending = {Pending(nodes, d)}
        /\ x[Root] = 2 /\ x[b] = 2 /\ x[d] = 1
        /\ update_queue = <<Mark(Root), Mark(b)>>

\* C3: the children a node creates while it runs are pending when the step
\* ends and have not run in it, and no node runs while a child of one of
\* its earlier siblings is pending.
C3_ChildrenBeforeSiblings ==
    [][\A s \in DOMAIN nodes :
         x'[s] = x[s] + 1 =>
           /\ \A c \in DOMAIN nodes' \ DOMAIN nodes :
                IsPend(pending', c) /\ x'[c] = 0 /\ nodes'[c].parent = s
           /\ \A c \in DOMAIN nodes :
                (IsPend(pending, c) /\ nodes[c].parent # NoKey)
                  => ~LaterSibling(s, nodes[c].parent)]_vars

\* a child ran while a later sibling of its parent was waiting
C3_Witness ==
    \E c, s \in DOMAIN nodes :
        /\ nodes[c].parent # NoKey
        /\ LaterSibling(s, nodes[c].parent)
        /\ x[c] = 1 /\ x[s] = 0
        /\ IsPend(pending, s)

\* C4: the Pending set never holds two entries for one key; a queued mark
\* of a node that is pending leaves the set as it is, a queued mark of a
\* node that is not pending adds one entry for it, and so does the
\* creation of a node.
C4_OnePerKey ==
    /\ [](\A p, q \in pending : p.key = q.key => p = q)
    /\ [][/\ (pc = "updates" /\ update_queue # <<>>
                /\ update_queue' = Tail(update_queue)
                /\ Head(update_queue).op = "mark")
             => LET k == Head(update_queue).key IN
                IF IsPend(pending, k)
                THEN pending' = pending
                ELSE /\ IsPend(pending', k)
                     /\ Cardinality(pending') = Cardinality(pending) + 1
          /\ \A c \in DOMAIN nodes' \ DOMAIN nodes : IsPend(pending', c)
         ]_vars

\* a mark of a pending node was applied, next to another pending node
C4_Witness == hist.dup /\ Cardinality(pending) = 2

\* a step of the driver starts
StepTaken ==
    /\ call # "none" /\ pc = "idle"
    /\ x' # x \/ pc' # pc \/ is_initial' # is_initial \/ pending' # pending

\* C5: the first step, and no other, runs the root and ends the initial
\* state; a later step with a pending entry removes one entry and runs its
\* node and no other; a later step with nothing pending runs no node,
\* goes through the task loop and the update loop until the update queue
\* is empty, and returns None.
C5_OneOfThree ==
    [][/\ (StepTaken /\ is_initial)
             => /\ ~is_initial' /\ pc' = "idle"
                /\ RunsOnly(Root)
                /\ pending \subseteq pending'
       /\ (StepTaken /\ ~is_initial /\ pending # {})
             => /\ pc' = "idle"
                /\ \E p \in pending :
                     pending \ pending' = {p} /\ RunsOnly(p.key)
       /\ (StepTaken /\ ~is_initial /\ pending = {})
             => x' = x /\ pc' = "tasks"
       /\ pc # "idle" => x' = x /\ nodes' = nodes
       /\ (pc # "idle" /\ pc' = "idle")
             => /\ update_queue = <<>>
                /\ call' = "none"
                /\ result'.res.out \in {"None", "Pending", "Ok",
                                        "Poll::Pending", "Ready(Ok)"}
                /\ call = "next" => result'.res.out = "None"
       /\ ~is_initial => ~is_initial'
      ]_vars

\* after the initial step the root was popped and run again, and the
\* driver now is in the update loop
C5_Witness == pc = "updates" /\ x[Root] = 2 /\ update_queue # <<>>

\* try_compose, alone or under poll_compose, has returned
Returned == call = "none" /\ result.api \in {"try", "poll"}

\* C6: try_compose returns Ok exactly when some step of the call did real
\* work (ran a node, resumed a task or called an update) and none failed,
\* and Pending exactly when the call did no work at all.
C6_RealWork ==
    Returned =>
        /\ result.try.out \in {"Ok", "Pending", "Error"}
        /\ result.try.out = "Ok" <=> (hist.worked /\ result.try.out # "Error")
        /\ result.try.out = "Pending" <=> ~hist.worked

\* C7: the step that ends a call without a failure, by reporting that
\* nothing is left to do, resumed no task and called no update.
C7_NoProgress ==
    (call = "none" /\ result.res.out \in {"None", "Ok", "Pending",
                                           "Poll::Pending", "Ready(Ok)"})
        => ~hist.drained

\* C8: while poll_compose runs and when it has returned the wake handle of
\* the Runtime is the one the caller passed; Pending of try_compose comes
\* out as Poll::Pending, Ok as Ready(Ok), an error as Ready(Err) with that
\* same error, and nothing else comes out as Ready(Err).
C8_Poll ==
    /\ call = "poll" => waker = hist.pollArg
    /\ (call = "none" /\ result.api = "poll") =>
         /\ waker = hist.pollArg
         /\ result.try.out = "Pending" <=> result.res.out = "Poll::Pending"
         /\ result.try.out = "Ok" <=> result.res.out = "Ready(Ok)"
         /\ result.try.out = "Error" <=> result.res.out = "Ready(Err)"
         /\ result.res.err = result.try.err
         /\ result.res.out = "Ready(Err)" => result.res.err \in Errors

\* poll_compose with handle 2, after handle 1 was in use, found nothing
\* pending and returned Poll::Pending
C8_Witness ==
    /\ call = "none" /\ result.api = "poll"
    /\ result.res.out = "Poll::Pending"
    /\ waker = 2 /\ 1 \in signals

\* C9: as long as no composable reports a failure and the composer is
\* driven by try_compose (or poll_compose) alone, every call returns Ok and
\* a Counter, which marks itself whenever it runs, has run once per call:
\* after the n-th call its x is n.
C9_OncePerCall ==
    (call = "none" /\ hist.ncalls >= 1 /\ hist.nfail = 0 /\ ~hist.bare) =>
        \A n \in DOMAIN nodes :
            nodes[n].kind = "Counter" =>
                x[n] = hist.ncalls /\ result.try.out = "Ok"

\* Wrap with a Counter below it, after three calls: x is 3
C9_Witness ==
    /\ call = "none" /\ hist.ncalls = 3 /\ hist.nfail = 0 /\ ~hist.bare
    /\ Len(nodes) = 2
    /\ nodes[1].kind = "Plain" /\ nodes[2].kind = "Counter"
    /\ x[2] = 3

\* C10: a call of try_compose that starts with the tree composed, nothing
\* pending, no task ready and no update queued runs no composable and
\* returns Pending; and a node that has run becomes pending again only
\* when a queued mark of that very node is applied, and runs again only
\* when it is pending.
C10_SteadyState ==
    /\ []((hist.steady /\ (call \in {"try", "poll"} \/ Returned))
            => x = hist.x0)
    /\ []((hist.steady /\ Returned) => result.try.out = "Pending")
    /\ [][\A n \in DOMAIN nodes :
            /\ (~IsPend(pending, n) /\ IsPend(pending', n))
                 => /\ pc = "updates" /\ update_queue # <<>>
                    /\ Head(update_queue) = Mark(n)
            /\ (x[n] >= 1 /\ x'[n] # x[n])
                 => IsPend(pending, n) /\ x'[n] = x[n] + 1]_vars

\* Wrap with a NonUpdateCounter below it: the second and the third call
\* found nothing to do and x stayed 1
C10_Witness ==
    /\ Returned /\ hist.steady /\ hist.ncalls = 3
    /\ result.try.out = "Pending"
    /\ x = <<1, 1>>
    /\ \A n \in DOMAIN nodes : nodes[n].kind = "Plain"

\* the value handed to the caller says that a failure was reported
Failed(r) == r.res.out \in {"Some(Err)", "Error", "Ready(Err)"}

\* C11: a step of the driver reports a failure exactly when some failure
\* was reported to its error sink while it worked: a step that runs a node
\* does, and so does a step that resumes tasks and calls updates, whose
\* result is given when its loops have ended.
C11_StepResult ==
    [][/\ (call # "none" /\ pc = "idle" /\ x' # x)
             => (hist'.nfail > hist.nfail <=> (call' = "none" /\ Failed(result')))
       /\ (pc = "updates" /\ pc' = "idle")
             => (error_cell # NoKey <=> Failed(result'))]_vars

\* C12: the step of try_compose in which a failure is reported is the last
\* step of the call, which returns that failure; what the step did stays
\* done (the node has run, the nodes it created exist, the updates it
\* queued are queued, the initial state is over), every entry that was
\* pending and not popped is still pending, and the nodes pending at that
\* moment have all run when a later call returns without a failure.
C12_FailureStops ==
    /\ [][(call \in {"try", "poll"} /\ hist'.nfail > hist.nfail)
            => /\ call' = "none" /\ result'.try.out = "Error"
               /\ \E n \in DOMAIN nodes : RunsOnly(n)
               /\ \A n \in DOMAIN nodes : nodes'[n].parent = nodes[n].parent
               /\ IsPrefix(update_queue, update_queue')
               /\ ~is_initial'
               /\ \A p \in pending :
                    p \in pending' \/ x'[p.key] = x[p.key] + 1
               /\ \A c \in DOMAIN nodes' \ DOMAIN nodes : IsPend(pending', c)
          ]_vars
    /\ [][\A p \in pending :
            p \notin pending' => x'[p.key] = x[p.key] + 1]_vars
    /\ []((Returned /\ result.try.out # "Error") => hist.owed = {})

\* the root failed in the first call with its child pending; the second
\* call ran the child and returned Ok
C12_Witness ==
    /\ Returned /\ result.try.out = "Ok"
    /\ hist.ncalls = 2 /\ hist.nfail = 1
    /\ x = <<1, 1>>
    /\ hist.owed = {}

\* C13: the failure try_compose returns is the first failure reported
\* during the call, also when the step that failed reported several.
C13_FirstError ==
    (Returned /\ result.try.out = "Error") => result.try.err = hist.firstErr

\* C14: the update queue changes only at its two ends: an enqueue appends
\* at the back, and only the update loop of the drain step removes, one
\* update per round and always the front one, which is called in that
\* round (a mark marks its node). No update is called while a composable
\* runs, and when the drain step ends the queue is empty. So every update
\* is called once, in the order of the enqueues.
C14_Fifo ==
    [][/\ update_queue' # update_queue
            => \/ /\ pc # "updates"
                  /\ Len(update_queue') = Len(update_queue) + 1
                  /\ IsPrefix(update_queue, update_queue')
               \/ /\ pc = "updates" /\ pc' = "updates"
                  /\ update_queue # <<>>
                  /\ update_queue' = Tail(update_queue)
                  /\ x' = x
                  /\ LET u == Head(update_queue) IN
                       pending' = IF u.op = "mark"
                                  THEN pending \cup {Pending(nodes, u.key)}
                                  ELSE pending
       /\ (pc = "updates" /\ pc' = "idle") => update_queue' = <<>>
      ]_vars

\* the marks of two nodes were queued together, the first was called and
\* its node alone is pending, the second is at the front of the queue
C14_Witness ==
    /\ pc = "updates"
    /\ \E a, b \in DOMAIN nodes :
         /\ a # b
         /\ update_queue = <<Mark(b)>>
         /\ pending = {Pending(nodes, a)}
         /\ hist.drained

\* C15: the Task Table never holds a task that has completed, and no task
\* is resumed after it has completed.
C15_CompletedRemoved ==
    /\ \A t \in DOMAIN tasks : tasks[t].state # "done"
    /\ ~hist.repolled

\* C16: in the drain step no update is called before the task loop has
\* ended on an empty ready queue, no task is resumed once the update loop
\* has begun, and a task whose resumption in this step issued a wake of
\* its own key is not resumed again in this step.
C16_ResumedOnce ==
    [][/\ (pc = "tasks" /\ task_queue # <<>>
             /\ task_queue' = Tail(task_queue))
            => Head(task_queue) \notin hist.rewoken
       /\ pc = "tasks" => update_queue' = update_queue /\ pending' = pending
       /\ (pc = "tasks" /\ pc' = "updates") => task_queue = <<>>
       /\ pc = "updates" => tasks' = tasks /\ hist'.rewoken = hist.rewoken
      ]_vars

\* C17: a wake of a task puts the task's key at the back of the ready
\* queue and signals the wake handle the Runtime holds at that moment, if
\* it holds one, and so does every enqueue of an update.
C17_WakeSignals ==
    [][/\ (x' = x /\ Len(task_queue') = Len(task_queue) + 1)
            => /\ \E key \in DOMAIN tasks :
                    task_queue' = Append(task_queue, key)
               /\ waker # NoKey => waker \in signals'
       /\ (Len(update_queue') = Len(update_queue) + 1)
            => (waker # NoKey => waker \in signals')
      ]_vars

\* the place of key k in the sequence s
Pos(s, k) == CHOOSE i \in DOMAIN s : s[i] = k

\* C18: dropping the Composer removes every node of the arena once, every
\* child before the node that owns it, and leaves no node in the arena.
C18_Teardown ==
    [][(pc # "dropped" /\ pc' = "dropped")
         => LET order == hist'.removed IN
            /\ \A k \in DOMAIN nodes :
                 Cardinality({i \in DOMAIN order : order[i] = k}) = 1
            /\ Len(order) = Cardinality(DOMAIN nodes)
            /\ \A c \in DOMAIN nodes :
                 nodes[c].parent # NoKey
                   => Pos(order, c) < Pos(order, nodes[c].parent)
            /\ DOMAIN nodes' = {}
      ]_vars

\* root(A(C), B) was dropped: C, then A, then B, then the root
C18_Witness == pc = "dropped" /\ hist.removed = <<4, 2, 3, 1>>

\* the child indices from the root down to node k
RECURSIVE PathOf(_, _)
PathOf(ns, k) ==
    IF ns[k].parent = NoKey THEN <<ns[k].child_idx>>
    ELSE Append(PathOf(ns, ns[k].parent), ns[k].child_idx)

\* C19: for every live node Runtime::pending gives the child indices from
\* the root down to the node (the root's own index alone for the root, the
\* parent's path and then the node's own index for any other node); every
\* entry of the Pending set holds that path of its node; and a node keeps
\* its parent and its child index, so its path is the same at every mark.
C19_Path ==
    /\ [](\A k \in DOMAIN nodes :
            /\ Pending(nodes, k).key = k
            /\ Pending(nodes, k).indices = PathOf(nodes, k)
            /\ nodes[k].parent = NoKey
                 => Pending(nodes, k).indices = <<nodes[k].child_idx>>
            /\ nodes[k].parent # NoKey
                 => Pending(nodes, k).indices =
                      Append(Pending(nodes, nodes[k].parent).indices,
                             nodes[k].child_idx))
    /\ [](\A p \in pending : p.indices = PathOf(nodes, p.key))
    /\ [][\A k \in DOMAIN nodes :
            /\ nodes'[k].parent = nodes[k].parent
            /\ nodes'[k].child_idx = nodes[k].child_idx
            /\ Pending(nodes', k) = Pending(nodes, k)]_vars

\* the child of the root's second child is pending with the path [0, 1, 0]
C19_Witness ==
    \E k \in DOMAIN nodes :
        /\ Pending(nodes, k) \in pending
        /\ Pending(nodes, k).indices = <<0, 1, 0>>

\* C20: in the step that runs a node, current_key is set to that node's
\* key (the root in the initial step, the key of the popped entry
\* otherwise) and holds it when the step ends; the children created in the
\* step have that node as their parent; and current_key changes in no
\* other step.
C20_CurrentKey ==
    [][/\ \A n \in DOMAIN nodes :
            x'[n] # x[n]
              => /\ current_key' = n
                 /\ is_initial => n = Root
                 /\ ~is_initial => n = first(pending).key
                 /\ \A c \in DOMAIN nodes' \ DOMAIN nodes :
                      nodes'[c].parent = n
       /\ x' = x => current_key' = current_key
      ]_vars

\* a node other than the root has run and is the current node
C20_Witness ==
    /\ current_key # Root
    /\ current_key \in DOMAIN nodes
    /\ x[current_key] >= 1
    /\ nodes[current_key].children # <<>>

\* C21: when poll_compose has returned Poll::Pending and there is work (a
\* pending entry, a key in the ready queue or a queued update), the wake
\* handle that call recorded has been signalled since the call began.
C21_NoLostWake ==
    (/\ call = "none" /\ result.api = "poll"
     /\ result.res.out = "Poll::Pending"
     /\ pending # {} \/ task_queue # <<>> \/ update_queue # <<>>)
        => hist.woken

\* C22: every step of the driver that has begun ends (the drain step
\* leaves its two loops and returns), and every call of try_compose
\* returns.
C22_Terminates ==
    /\ (pc # "idle") ~> (pc = "idle")
    /\ (call = "try") ~> (call = "none")

\* C23: while the Composer lives, every entry of the Pending set names a
\* node of the arena and every key in the ready queue names a task of the
\* Task Table, so the entry or key a step pops is found; this is so too
\* when the key is that of a task that has completed.
C23_KeysPresent ==
    pc # "dropped" =>
        /\ \A p \in pending : p.key \in DOMAIN nodes
        /\ \A i \in DOMAIN task_queue : task_queue[i] \in DOMAIN tasks
        /\ current_key \in DOMAIN nodes

\* a wake came after the task had completed, and the drain step popped the
\* key and found the completed task; now two more wakes of it are queued
C23_Witness ==
    /\ hist.repolled
    /\ \E t \in DOMAIN tasks :
         tasks[t].state = "done" /\ task_queue = <<t, t>>

====
